---- MODULE Spec2Model ----
(***************************************************************************)
(* Model of nmc_met_graphics/magics/dynamics.py: four map-product          *)
(* renderers (draw_wind_upper, draw_wind_high, draw_vort_high, draw_mslp)  *)
(* that assemble field and style objects and hand them, in order, to one   *)
(* magics.plot call.                                                       *)
(*                                                                         *)
(* An object built by a collaborator (util, map_set, Magics) is the record *)
(* of the call that built it: [op |-> callee, kw |-> its arguments].       *)
(* Decimal style values of fields that are fractional somewhere in the     *)
(* module are kept in tenths, written Dec(units, tenths).                  *)
(***************************************************************************)
EXTENDS Integers, Sequences, FiniteSets, TLC

VARIABLES
    out_png_width,  \* the module global of dynamics.py
    ncalls,         \* renderer invocations made so far
    args,           \* arguments of the latest invocation
    trace,          \* collaborator calls the latest invocation made, in order
    result,         \* how the latest invocation ended
    files,          \* output targets the latest invocation had the engine write
    fault,          \* which collaborator call of the latest invocation raised (0: none)
    hist            \* per invocation so far: its arguments and its render call

vars == <<out_png_width, ncalls, args, trace, result, files, fault, hist>>

\* ------------------------------------------------------------------ bounds

MaxNLon == 360
MaxNLat == 181
NCells == 2
MaxCalls == 2

\* ------------------------------------------------------------ Python values

None == <<>>
Some(x) == <<x>>
IsNone(v) == v = <<>>
Get(v) == v[1]

Dec(units, tenths) == 10 * units + tenths

Max(x, y) == IF x >= y THEN x ELSE y

\* math.ceil(n / d) for a length n >= 0 and d > 0
Ceil(n, d) == IF n % d = 0 THEN n \div d ELSE (n \div d) + 1

RECURSIVE RootFrom(_, _)
RootFrom(x, r) == IF r * r >= x THEN r ELSE RootFrom(x, r + 1)

\* np.sqrt on one cell; the grids of the model hold cells whose root is whole
Sqrt(x) == RootFrom(x, 0)

\* numpy's elementwise arithmetic on grids of one shape
NpMul(g, h) == [k \in DOMAIN g |-> g[k] * h[k]]
NpAdd(g, h) == [k \in DOMAIN g |-> g[k] + h[k]]
NpSqrt(g) == [k \in DOMAIN g |-> Sqrt(g[k])]

Pad2(n) == IF n < 10 THEN "0" \o ToString(n) ELSE ToString(n)

\* the fields without their zero padding
Strftime_unpadded(d) ==
    ToString(d.year) \o "/" \o ToString(d.month) \o "/" \o ToString(d.day) \o " "
        \o ToString(d.hour) \o ":" \o ToString(d.minute) \o "(UTC)"

\* date_obj.strftime("%Y/%m/%d %H:%M(UTC)") for a four-digit year
Strftime(d) ==
    ToString(d.year) \o "/" \o Pad2(d.month) \o "/" \o Pad2(d.day) \o " "
        \o Pad2(d.hour) \o ":" \o Pad2(d.minute) \o "(UTC)"

\* "<prefix>{}<suffix>".format(s)
Format(prefix, s, suffix) == prefix \o s \o suffix

\* --------------------------------------------------------- collaborators

Call(op, kw) == [op |-> op, kw |-> kw]

minput_2d_vector(u, v, lon, lat, skip) ==
    Call("util.minput_2d_vector",
         [u |-> u, v |-> v, lon |-> lon, lat |-> lat, skip |-> skip])

minput_2d(data, lon, lat, metadata) ==
    Call("util.minput_2d",
         [data |-> data, lon |-> lon, lat |-> lat, metadata |-> metadata])

get_mmap(kw) == Call("map_set.get_mmap", kw)
get_mcoast(name) == Call("map_set.get_mcoast", [name |-> name])
mcont(kw) == Call("magics.mcont", kw)
mwind(kw) == Call("magics.mwind", kw)
mlegend(kw) == Call("magics.mlegend", kw)
mtext(kw) == Call("magics.mtext", kw)
moutput(kw) == Call("magics.output", kw)
mplot(plot_args) == Call("magics.plot", plot_args)

\* The engine's render operation: it writes the output target it is handed, if
\* any, and gives back a displayable handle.
MagicsPlot(plot_args) ==
    [handle |-> [figure |-> Len(plot_args)],
     written |-> IF Len(plot_args) > 0 /\ plot_args[1].op = "magics.output"
                 THEN <<plot_args[1].kw>> ELSE <<>>]

\* What a collaborator call raises when it fails.
Raised(call, at) == [by |-> call.op, at |-> at]

\* ------------------------------------------------------------------ inputs

LonLens == {0, 70, 71, MaxNLon}
LatLens == {1, 36, MaxNLat}

\* (uwind, vwind) grids, flattened to NCells cells
WindPairs ==
    { <<[k \in 1..NCells |-> 3 * k], [k \in 1..NCells |-> 4 * k]>>,
      <<[k \in 1..NCells |-> 0 - 5 * k], [k \in 1..NCells |-> 12 * k]>> }

GhGrid == [k \in 1..NCells |-> 5860 + 20 * k]
VortGrids == { [k \in 1..NCells |-> k], [k \in 1..NCells |-> 0 - 3 * k] }
MslpGrids == { [k \in 1..NCells |-> 1000 + 5 * k], [k \in 1..NCells |-> 985 - k] }

GhOpts == {None, Some(GhGrid)}
SkipOpts == {None, Some(3)}
RegionOpts == {None, Some(<<70, 140, 15, 55>>)}
HeadOpts == {None, Some("T850"), Some("")}
DateOpts ==
    {None,
     Some([year |-> 2016, month |-> 7, day |-> 19, hour |-> 12, minute |-> 0]),
     Some([year |-> 2020, month |-> 12, day |-> 1, hour |-> 0, minute |-> 5])}
OutfileOpts == {None, Some("wind.png")}

\* ------------------------------------------------- shared by the renderers

\* a failing call caught and the body carried on to its end
Invoke_swallow(a, calls, ret, fail) ==
    LET plot_args == calls[Len(calls)].kw
    IN  /\ ncalls' = ncalls + 1
        /\ args' = Some(a)
        /\ trace' = calls
        /\ result' = [kind |-> "returned", value |-> ret, exc |-> None]
        /\ files' = MagicsPlot(plot_args).written
        /\ fault' = fail
        /\ hist' = Append(hist, [args |-> a, plot |-> Some(plot_args)])

\* One invocation of a renderer: `calls` are the collaborator calls of its body
\* in program order, the render call last; `ret` is what the body returns once
\* the render call has come back. fail = 0: no call raises; fail = k: the k-th
\* call raises and, no handler being installed, the invocation ends there.
Invoke(a, calls, ret, fail) ==
    LET plot_args == calls[Len(calls)].kw
        done == fail = 0
    IN  /\ ncalls' = ncalls + 1
        /\ args' = Some(a)
        /\ trace' = IF done THEN calls ELSE SubSeq(calls, 1, fail)
        /\ result' = IF done
                     THEN [kind |-> "returned", value |-> ret, exc |-> None]
                     ELSE [kind |-> "raised", value |-> None,
                           exc |-> Some(Raised(calls[fail], fail))]
        /\ files' = IF done THEN MagicsPlot(plot_args).written ELSE <<>>
        /\ fault' = fail
        /\ hist' = Append(hist, [args |-> a,
                                 plot |-> IF done \/ fail = Len(calls)
                                          THEN Some(plot_args) ELSE None])

\* --------------------------------------------------------- draw_wind_upper

\* integer division in place of math.ceil of the true quotient
upper_skip_vector_floor(a) ==
    IF IsNone(a.skip_vector)
    THEN Max(a.lon \div 70, a.lat \div 35)
    ELSE Get(a.skip_vector)

upper_skip_vector(a) ==
    IF IsNone(a.skip_vector)
    THEN Max(Ceil(a.lon, 70), Ceil(a.lat, 35))
    ELSE Get(a.skip_vector)

upper_wind_field(a) ==
    minput_2d_vector(a.uwind, a.vwind, a.lon, a.lat, upper_skip_vector(a))

upper_wspeed(a) ==
    NpSqrt(NpAdd(NpMul(a.uwind, a.uwind), NpMul(a.vwind, a.vwind)))

upper_wspeed_field(a) ==
    minput_2d(upper_wspeed(a), a.lon, a.lat,
              [long_name |-> "Wind Speed", units |-> "m/s"])

upper_gh_feild(a) ==
    minput_2d(Get(a.gh), a.lon, a.lat, [long_name |-> "height", units |-> "gpm"])

upper_china_map(a) ==
    IF IsNone(a.map_region)
    THEN get_mmap([name |-> "CHINA_CYLINDRICAL", subpage_frame_thickness |-> 5])
    ELSE get_mmap([name |-> "CHINA_REGION_CYLINDRICAL",
                   map_region |-> Get(a.map_region),
                   subpage_frame_thickness |-> 5])

upper_coastlines == get_mcoast("COAST_FILL")
upper_china_coastlines == get_mcoast("PROVINCE")

upper_gh_contour ==
    mcont([legend |-> "off",
           contour_level_selection_type |-> "interval",
           contour_interval |-> 50,
           contour_line_colour |-> "black",
           contour_line_thickness |-> Dec(1, 0),
           contour_label |-> "on",
           contour_label_height |-> Dec(0, 5),
           contour_highlight_colour |-> "black",
           contour_highlight_thickness |-> 2])

upper_wspeed_contour ==
    mcont([legend |-> "on",
           contour_level_selection_type |-> "level_list",
           contour_level_list |-> <<30, 40, 50, 60, 70, 80, 90, 100>>,
           contour_shade |-> "on",
           contour_shade_max_level_colour |-> "evergreen",
           contour_shade_min_level_colour |-> "yellow",
           contour_shade_method |-> "area_fill",
           contour_reference_level |-> 0,
           contour_highlight |-> "off",
           contour_hilo |-> "hi",
           contour_hilo_format |-> "(F3.0)",
           contour_hilo_height |-> Dec(0, 6),
           contour_hilo_type |-> "number",
           contour_hilo_window_size |-> 10,
           contour_label |-> "off"])

upper_wind_vector ==
    mwind([legend |-> "on",
           wind_field_type |-> "arrows",
           wind_arrow_head_shape |-> 1,
           wind_arrow_thickness |-> Dec(0, 5),
           wind_arrow_unit_velocity |-> 50,
           wind_arrow_colour |-> "evergreen"])

upper_legend ==
    mlegend([legend |-> "on",
             legend_text_colour |-> "black",
             legend_box_mode |-> "legend_box_mode",
             legend_automatic_position |-> "right",
             legend_border |-> "off",
             legend_border_colour |-> "black",
             legend_box_blanking |-> "on",
             legend_display_type |-> "continuous",
             legend_title |-> "on",
             legend_title_text |-> "Wind Speed",
             legend_text_font_size |-> "0.5"])

\* the caption tested for truth, not against None
upper_head_line_truthy(a) ==
    IF ~IsNone(a.head_info) /\ Get(a.head_info) # ""
    THEN Format("<font size='1'>", Get(a.head_info), "</font>")
    ELSE "<font size='1'>200hPa Wind[m/s] and Height[gpm]</font>"

upper_head_line(a) ==
    IF ~IsNone(a.head_info)
    THEN Format("<font size='1'>", Get(a.head_info), "</font>")
    ELSE "<font size='1'>200hPa Wind[m/s] and Height[gpm]</font>"

upper_text_lines(a) ==
    IF ~IsNone(a.date_obj)
    THEN <<upper_head_line(a),
           Format("<font size='0.8' colour='red'>", Strftime(Get(a.date_obj)), "</font>")>>
    ELSE <<upper_head_line(a)>>

upper_title(a) ==
    mtext([text_lines |-> upper_text_lines(a),
           text_justification |-> "left",
           text_font_size |-> Dec(0, 6),
           text_mode |-> "title",
           text_colour |-> "charcoal"])

upper_output(a, width) ==
    moutput([output_formats |-> <<"png">>,
             output_name_first_page_number |-> "off",
             output_width |-> width,
             output_name |-> Get(a.outfile)])

upper_plot_args(a, width) ==
    IF ~IsNone(a.outfile)
    THEN IF ~IsNone(a.gh)
         THEN <<upper_output(a, width), upper_china_map(a), upper_coastlines,
                upper_wspeed_field(a), upper_wspeed_contour,
                upper_wind_field(a), upper_wind_vector,
                upper_gh_feild(a), upper_gh_contour,
                upper_legend, upper_title(a), upper_china_coastlines>>
         ELSE <<upper_output(a, width), upper_china_map(a), upper_coastlines,
                upper_wspeed_field(a), upper_wspeed_contour,
                upper_wind_field(a), upper_wind_vector,
                upper_legend, upper_title(a), upper_china_coastlines>>
    ELSE IF ~IsNone(a.gh)
         THEN <<upper_china_map(a), upper_coastlines,
                upper_wspeed_field(a), upper_wspeed_contour,
                upper_wind_field(a), upper_wind_vector,
                upper_gh_feild(a), upper_gh_contour,
                upper_legend, upper_title(a), upper_china_coastlines>>
         ELSE <<upper_china_map(a), upper_coastlines,
                upper_wspeed_field(a), upper_wspeed_contour,
                upper_wind_field(a), upper_wind_vector,
                upper_legend, upper_title(a), upper_china_coastlines>>

\* the collaborator calls of the body, in program order
upper_calls(a, width) ==
    <<upper_wind_field(a), upper_wspeed_field(a)>>
        \o (IF ~IsNone(a.gh) THEN <<upper_gh_feild(a)>> ELSE <<>>)
        \o <<upper_china_map(a), upper_coastlines, upper_china_coastlines,
             upper_gh_contour, upper_wspeed_contour, upper_wind_vector,
             upper_legend, upper_title(a)>>
        \o (IF ~IsNone(a.outfile) THEN <<upper_output(a, width)>> ELSE <<>>)
        \o <<mplot(upper_plot_args(a, width))>>

upper_return(a, plotted) ==
    IF ~IsNone(a.outfile) THEN None ELSE Some(plotted)

draw_wind_upper(a, fail) ==
    /\ Invoke(a, upper_calls(a, out_png_width),
              upper_return(a, MagicsPlot(upper_plot_args(a, out_png_width)).handle),
              fail)
    /\ UNCHANGED out_png_width

\* ---------------------------------------------------------- draw_wind_high

high_skip_vector(a) ==
    IF IsNone(a.skip_vector)
    THEN Max(Ceil(a.lon, 70), Ceil(a.lat, 35))
    ELSE Get(a.skip_vector)

high_wind_field(a) ==
    minput_2d_vector(a.uwind, a.vwind, a.lon, a.lat, high_skip_vector(a))

high_wspeed(a) ==
    NpSqrt(NpAdd(NpMul(a.uwind, a.uwind), NpMul(a.vwind, a.vwind)))

high_wspeed_field(a) ==
    minput_2d(high_wspeed(a), a.lon, a.lat,
              [long_name |-> "Wind Speed", units |-> "m/s"])

high_gh_feild(a) ==
    minput_2d(Get(a.gh), a.lon, a.lat, [long_name |-> "height", units |-> "gpm"])

\* the caller's region ignored
high_china_map_fixed(a) ==
    get_mmap([name |-> "CHINA_CYLINDRICAL", subpage_frame_thickness |-> 5])

high_china_map(a) ==
    IF IsNone(a.map_region)
    THEN get_mmap([name |-> "CHINA_CYLINDRICAL", subpage_frame_thickness |-> 5])
    ELSE get_mmap([name |-> "CHINA_REGION_CYLINDRICAL",
                   map_region |-> Get(a.map_region),
                   subpage_frame_thickness |-> 5])

high_coastlines == get_mcoast("COAST_FILL")
high_china_coastlines == get_mcoast("PROVINCE")

high_gh_contour ==
    mcont([legend |-> "off",
           contour_level_selection_type |-> "interval",
           contour_interval |-> 20,
           contour_reference_level |-> 5880,
           contour_line_colour |-> "black",
           contour_line_thickness |-> Dec(1, 5),
           contour_label |-> "on",
           contour_label_height |-> Dec(0, 5),
           contour_highlight_colour |-> "black",
           contour_highlight_thickness |-> 3])

high_wspeed_contour ==
    mcont([legend |-> "on",
           contour_level_selection_type |-> "interval",
           contour_shade_max_level |-> 44,
           contour_shade_min_level |-> 8,
           contour_interval |-> 4,
           contour_shade |-> "on",
           contour |-> "off",
           contour_shade_method |-> "area_fill",
           contour_shade_colour_method |-> "palette",
           contour_shade_palette_name |-> "eccharts_rainbow_blue_purple_9",
           contour_reference_level |-> 8,
           contour_highlight |-> "off",
           contour_hilo |-> "hi",
           contour_hilo_format |-> "(F3.0)",
           contour_hilo_height |-> Dec(0, 6),
           contour_hilo_type |-> "number",
           contour_hilo_window_size |-> 10,
           contour_label |-> "off"])

high_wind_vector ==
    mwind([legend |-> "off",
           wind_field_type |-> "flags",
           wind_flag_length |-> Dec(0, 6),
           wind_thinning_factor |-> 2,
           wind_flag_style |-> "solid",
           wind_flag_thickness |-> 1,
           wind_flag_origin_marker |-> "dot",
           wind_flag_min_speed |-> 0,
           wind_flag_colour |-> "charcoal"])

high_legend ==
    mlegend([legend |-> "on",
             legend_text_colour |-> "black",
             legend_box_mode |-> "legend_box_mode",
             legend_automatic_position |-> "right",
             legend_border |-> "off",
             legend_border_colour |-> "black",
             legend_box_blanking |-> "on",
             legend_display_type |-> "continuous",
             legend_title |-> "on",
             legend_title_text |-> "Wind Speed",
             legend_text_font_size |-> "0.5"])

high_head_line(a) ==
    IF ~IsNone(a.head_info)
    THEN Format("<font size='1'>", Get(a.head_info), "</font>")
    ELSE "<font size='1'>850hPa Wind[m/s] and 500hPa Height[gpm]</font>"

high_text_lines(a) ==
    IF ~IsNone(a.date_obj)
    THEN <<high_head_line(a),
           Format("<font size='0.8' colour='red'>", Strftime(Get(a.date_obj)), "</font>")>>
    ELSE <<high_head_line(a)>>

high_title(a) ==
    mtext([text_lines |-> high_text_lines(a),
           text_justification |-> "left",
           text_font_size |-> Dec(0, 6),
           text_mode |-> "title",
           text_colour |-> "charcoal"])

high_output(a, width) ==
    moutput([output_formats |-> <<"png">>,
             output_name_first_page_number |-> "off",
             output_width |-> width,
             output_name |-> Get(a.outfile)])

\* the PROVINCE coastline handed over before the legend in the handle branches
high_plot_args_coast_early(a, width) ==
    IF ~IsNone(a.outfile)
    THEN IF ~IsNone(a.gh)
         THEN <<high_output(a, width), high_china_map(a), high_coastlines,
                high_wspeed_field(a), high_wspeed_contour,
                high_wind_field(a), high_wind_vector,
                high_gh_feild(a), high_gh_contour,
                high_legend, high_title(a), high_china_coastlines>>
         ELSE <<high_output(a, width), high_china_map(a), high_coastlines,
                high_wspeed_field(a), high_wspeed_contour,
                high_wind_field(a), high_wind_vector,
                high_legend, high_title(a), high_china_coastlines>>
    ELSE IF ~IsNone(a.gh)
         THEN <<high_china_map(a), high_coastlines,
                high_wspeed_field(a), high_wspeed_contour,
                high_wind_field(a), high_wind_vector,
                high_gh_feild(a), high_gh_contour,
                high_china_coastlines, high_legend, high_title(a)>>
         ELSE <<high_china_map(a), high_coastlines,
                high_wspeed_field(a), high_wspeed_contour,
                high_wind_field(a), high_wind_vector,
                high_china_coastlines, high_legend, high_title(a)>>

high_plot_args(a, width) ==
    IF ~IsNone(a.outfile)
    THEN IF ~IsNone(a.gh)
         THEN <<high_output(a, width), high_china_map(a), high_coastlines,
                high_wspeed_field(a), high_wspeed_contour,
                high_wind_field(a), high_wind_vector,
                high_gh_feild(a), high_gh_contour,
                high_legend, high_title(a), high_china_coastlines>>
         ELSE <<high_output(a, width), high_china_map(a), high_coastlines,
                high_wspeed_field(a), high_wspeed_contour,
                high_wind_field(a), high_wind_vector,
                high_legend, high_title(a), high_china_coastlines>>
    ELSE IF ~IsNone(a.gh)
         THEN <<high_china_map(a), high_coastlines,
                high_wspeed_field(a), high_wspeed_contour,
                high_wind_field(a), high_wind_vector,
                high_gh_feild(a), high_gh_contour,
                high_legend, high_title(a), high_china_coastlines>>
         ELSE <<high_china_map(a), high_coastlines,
                high_wspeed_field(a), high_wspeed_contour,
                high_wind_field(a), high_wind_vector,
                high_legend, high_title(a), high_china_coastlines>>

\* the collaborator calls of the body, in program order
high_calls(a, width) ==
    <<high_wind_field(a), high_wspeed_field(a)>>
        \o (IF ~IsNone(a.gh) THEN <<high_gh_feild(a)>> ELSE <<>>)
        \o <<high_china_map(a), high_coastlines, high_china_coastlines,
             high_gh_contour, high_wspeed_contour, high_wind_vector,
             high_legend, high_title(a)>>
        \o (IF ~IsNone(a.outfile) THEN <<high_output(a, width)>> ELSE <<>>)
        \o <<mplot(high_plot_args(a, width))>>

high_return(a, plotted) ==
    IF ~IsNone(a.outfile) THEN None ELSE Some(plotted)

draw_wind_high(a, fail) ==
    /\ Invoke(a, high_calls(a, out_png_width),
              high_return(a, MagicsPlot(high_plot_args(a, out_png_width)).handle),
              fail)
    /\ UNCHANGED out_png_width

\* ---------------------------------------------------------- draw_vort_high

vort_skip_vector(a) ==
    IF IsNone(a.skip_vector)
    THEN Max(Ceil(a.lon, 70), Ceil(a.lat, 35))
    ELSE Get(a.skip_vector)

vort_wind_field(a) ==
    minput_2d_vector(a.uwind, a.vwind, a.lon, a.lat, vort_skip_vector(a))

\* one component taken twice in the second product
vort_wspeed_cross(a) ==
    NpSqrt(NpAdd(NpMul(a.uwind, a.uwind), NpMul(a.vwind, a.uwind)))

vort_wspeed(a) ==
    NpSqrt(NpAdd(NpMul(a.uwind, a.uwind), NpMul(a.vwind, a.vwind)))

\* the vorticity grid wrapped into the shaded field
vort_wspeed_field_vort(a) ==
    minput_2d(a.vort, a.lon, a.lat,
              [long_name |-> "Wind Speed", units |-> "m/s"])

vort_wspeed_field(a) ==
    minput_2d(vort_wspeed(a), a.lon, a.lat,
              [long_name |-> "Wind Speed", units |-> "m/s"])

vort_gh_feild(a) ==
    minput_2d(Get(a.gh), a.lon, a.lat, [long_name |-> "height", units |-> "gpm"])

vort_china_map(a) ==
    IF IsNone(a.map_region)
    THEN get_mmap([name |-> "CHINA_CYLINDRICAL", subpage_frame_thickness |-> 5])
    ELSE get_mmap([name |-> "CHINA_REGION_CYLINDRICAL",
                   map_region |-> Get(a.map_region),
                   subpage_frame_thickness |-> 5])

vort_coastlines == get_mcoast("COAST_FILL")
vort_china_coastlines == get_mcoast("PROVINCE")

vort_gh_contour ==
    mcont([legend |-> "off",
           contour_level_selection_type |-> "interval",
           contour_interval |-> 20,
           contour_reference_level |-> 5880,
           contour_line_colour |-> "black",
           contour_line_thickness |-> Dec(1, 5),
           contour_label |-> "on",
           contour_label_height |-> Dec(0, 5),
           contour_highlight_colour |-> "black",
           contour_highlight_thickness |-> 3])

vort_wspeed_contour ==
    mcont([legend |-> "on",
           contour_level_selection_type |-> "interval",
           contour_shade_max_level |-> 44,
           contour_shade_min_level |-> 8,
           contour_interval |-> 4,
           contour_shade |-> "on",
           contour |-> "off",
           contour_shade_method |-> "area_fill",
           contour_shade_colour_method |-> "palette",
           contour_shade_palette_name |-> "eccharts_rainbow_blue_purple_9",
           contour_reference_level |-> 8,
           contour_highlight |-> "off",
           contour_hilo |-> "hi",
           contour_hilo_format |-> "(F3.0)",
           contour_hilo_height |-> Dec(0, 6),
           contour_hilo_type |-> "number",
           contour_hilo_window_size |-> 10,
           contour_label |-> "off"])

vort_wind_vector ==
    mwind([legend |-> "off",
           wind_field_type |-> "flags",
           wind_flag_length |-> Dec(0, 6),
           wind_thinning_factor |-> 2,
           wind_flag_style |-> "solid",
           wind_flag_thickness |-> 1,
           wind_flag_origin_marker |-> "dot",
           wind_flag_min_speed |-> 0,
           wind_flag_colour |-> "charcoal"])

vort_legend ==
    mlegend([legend |-> "on",
             legend_text_colour |-> "black",
             legend_box_mode |-> "legend_box_mode",
             legend_automatic_position |-> "right",
             legend_border |-> "off",
             legend_border_colour |-> "black",
             legend_box_blanking |-> "on",
             legend_display_type |-> "continuous",
             legend_title |-> "on",
             legend_title_text |-> "Wind Speed",
             legend_text_font_size |-> "0.5"])

vort_head_line(a) ==
    IF ~IsNone(a.head_info)
    THEN Format("<font size='1'>", Get(a.head_info), "</font>")
    ELSE "<font size='1'>850hPa Wind[m/s] and 500hPa Height[gpm]</font>"

vort_text_lines(a) ==
    IF ~IsNone(a.date_obj)
    THEN <<vort_head_line(a),
           Format("<font size='0.8' colour='red'>", Strftime(Get(a.date_obj)), "</font>")>>
    ELSE <<vort_head_line(a)>>

vort_title(a) ==
    mtext([text_lines |-> vort_text_lines(a),
           text_justification |-> "left",
           text_font_size |-> Dec(0, 6),
           text_mode |-> "title",
           text_colour |-> "charcoal"])

vort_output(a, width) ==
    moutput([output_formats |-> <<"png">>,
             output_name_first_page_number |-> "off",
             output_width |-> width,
             output_name |-> Get(a.outfile)])

vort_plot_args(a, width) ==
    IF ~IsNone(a.outfile)
    THEN IF ~IsNone(a.gh)
         THEN <<vort_output(a, width), vort_china_map(a), vort_coastlines,
                vort_wspeed_field(a), vort_wspeed_contour,
                vort_wind_field(a), vort_wind_vector,
                vort_gh_feild(a), vort_gh_contour,
                vort_legend, vort_title(a), vort_china_coastlines>>
         ELSE <<vort_output(a, width), vort_china_map(a), vort_coastlines,
                vort_wspeed_field(a), vort_wspeed_contour,
                vort_wind_field(a), vort_wind_vector,
                vort_legend, vort_title(a), vort_china_coastlines>>
    ELSE IF ~IsNone(a.gh)
         THEN <<vort_china_map(a), vort_coastlines,
                vort_wspeed_field(a), vort_wspeed_contour,
                vort_wind_field(a), vort_wind_vector,
                vort_gh_feild(a), vort_gh_contour,
                vort_legend, vort_title(a), vort_china_coastlines>>
         ELSE <<vort_china_map(a), vort_coastlines,
                vort_wspeed_field(a), vort_wspeed_contour,
                vort_wind_field(a), vort_wind_vector,
                vort_legend, vort_title(a), vort_china_coastlines>>

\* the collaborator calls of the body, in program order
vort_calls(a, width) ==
    <<vort_wind_field(a), vort_wspeed_field(a)>>
        \o (IF ~IsNone(a.gh) THEN <<vort_gh_feild(a)>> ELSE <<>>)
        \o <<vort_china_map(a), vort_coastlines, vort_china_coastlines,
             vort_gh_contour, vort_wspeed_contour, vort_wind_vector,
             vort_legend, vort_title(a)>>
        \o (IF ~IsNone(a.outfile) THEN <<vort_output(a, width)>> ELSE <<>>)
        \o <<mplot(vort_plot_args(a, width))>>

vort_return(a, plotted) ==
    IF ~IsNone(a.outfile) THEN None ELSE Some(plotted)

draw_vort_high(a, fail) ==
    /\ Invoke(a, vort_calls(a, out_png_width),
              vort_return(a, MagicsPlot(vort_plot_args(a, out_png_width)).handle),
              fail)
    /\ UNCHANGED out_png_width

\* --------------------------------------------------------------- draw_mslp

mslp_field(a) ==
    minput_2d(a.mslp, a.lon, a.lat,
              [long_name |-> "Sea level pressure", units |-> "mb"])

mslp_gh_feild(a) ==
    minput_2d(Get(a.gh), a.lon, a.lat, [long_name |-> "height", units |-> "gpm"])

mslp_china_map(a) ==
    IF IsNone(a.map_region)
    THEN get_mmap([name |-> "CHINA_CYLINDRICAL", subpage_frame_thickness |-> 5])
    ELSE get_mmap([name |-> "CHINA_REGION_CYLINDRICAL",
                   map_region |-> Get(a.map_region),
                   subpage_frame_thickness |-> 5])

mslp_coastlines == get_mcoast("COAST_FILL")
mslp_china_coastlines == get_mcoast("PROVINCE")

mslp_gh_contour ==
    mcont([legend |-> "off",
           contour_level_selection_type |-> "interval",
           contour_interval |-> 20,
           contour_reference_level |-> 5880,
           contour_line_colour |-> "black",
           contour_line_thickness |-> Dec(1, 5),
           contour_label |-> "on",
           contour_label_height |-> Dec(0, 5),
           contour_highlight_colour |-> "black",
           contour_highlight_thickness |-> 3])

\* range(50) in place of range(51)
mslp_level_list_short == [i \in 1..50 |-> Dec(940, 0) + (i - 1) * Dec(2, 5)]

\* [940.+i*2.5 for i in range(51)], in tenths of a millibar
mslp_level_list == [i \in 1..51 |-> Dec(940, 0) + (i - 1) * Dec(2, 5)]

mslp_colour_list ==
    <<"#FD90EB", "#EB78E5", "#EF53E0", "#F11FD3", "#F11FD3", "#A20E9B", "#880576", "#6D0258", "#5F0853",
      "#2A0DA8", "#2F1AA7", "#3D27B4", "#3F3CB6", "#6D5CDE", "#A28CF9", "#C1B3FF", "#DDDCFE", "#1861DB",
      "#206CE5", "#2484F4", "#52A5EE", "#91D4FF", "#B2EFF8", "#DEFEFF", "#C9FDBD", "#91F78B", "#53ED54",
      "#1DB31E", "#0CA104", "#FFF9A4", "#FFE27F", "#FAC235", "#FF9D04", "#FF5E00", "#F83302", "#E01304",
      "#A20200", "#603329", "#8C6653", "#B18981", "#DDC0B3", "#F8A3A2", "#DD6663", "#CA3C3B", "#A1241D",
      "#6C6F6D", "#8A8A8A", "#AAAAAA", "#C5C5C5", "#D5D5D5", "#E7E3E4">>

mslp_contour ==
    mcont([legend |-> "on",
           contour_shade |-> "on",
           contour_hilo |-> "on",
           contour_hilo_height |-> Dec(0, 6),
           contour_hi_colour |-> "blue",
           contour_lo_colour |-> "red",
           contour_hilo_window_size |-> 5,
           contour |-> "off",
           contour_label |-> "off",
           contour_shade_method |-> "area_fill",
           contour_level_selection_type |-> "level_list",
           contour_level_list |-> mslp_level_list,
           contour_shade_colour_method |-> "list",
           contour_shade_colour_list |-> mslp_colour_list])

mslp_legend ==
    mlegend([legend |-> "on",
             legend_text_colour |-> "black",
             legend_box_mode |-> "legend_box_mode",
             legend_automatic_position |-> "right",
             legend_border |-> "off",
             legend_border_colour |-> "black",
             legend_box_blanking |-> "on",
             legend_display_type |-> "continuous",
             legend_title |-> "on",
             legend_title_text |-> "Pressure",
             legend_label_frequency |-> 2,
             legend_text_font_size |-> "0.5"])

mslp_head_line(a) ==
    IF ~IsNone(a.head_info)
    THEN Format("<font size='1'>", Get(a.head_info), "</font>")
    ELSE "<font size='1'>Mean sea level pressure[mb] and 500hPa Height[gpm]</font>"

mslp_text_lines(a) ==
    IF ~IsNone(a.date_obj)
    THEN <<mslp_head_line(a),
           Format("<font size='0.8' colour='red'>", Strftime(Get(a.date_obj)), "</font>")>>
    ELSE <<mslp_head_line(a)>>

mslp_title(a) ==
    mtext([text_lines |-> mslp_text_lines(a),
           text_justification |-> "left",
           text_font_size |-> Dec(0, 6),
           text_mode |-> "title",
           text_colour |-> "charcoal"])

mslp_output(a, width) ==
    moutput([output_formats |-> <<"png">>,
             output_name_first_page_number |-> "off",
             output_width |-> width,
             output_name |-> Get(a.outfile)])

\* legend and title change places in the no-overlay outfile branch
mslp_plot_args_swapped(a, width) ==
    IF ~IsNone(a.outfile)
    THEN IF ~IsNone(a.gh)
         THEN <<mslp_output(a, width), mslp_china_map(a), mslp_coastlines,
                mslp_field(a), mslp_contour,
                mslp_gh_feild(a), mslp_gh_contour,
                mslp_legend, mslp_title(a), mslp_china_coastlines>>
         ELSE <<mslp_output(a, width), mslp_china_map(a), mslp_coastlines,
                mslp_field(a), mslp_contour,
                mslp_title(a), mslp_legend, mslp_china_coastlines>>
    ELSE IF ~IsNone(a.gh)
         THEN <<mslp_china_map(a), mslp_coastlines,
                mslp_field(a), mslp_contour,
                mslp_gh_feild(a), mslp_gh_contour,
                mslp_legend, mslp_title(a), mslp_china_coastlines>>
         ELSE <<mslp_china_map(a), mslp_coastlines,
                mslp_field(a), mslp_contour,
                mslp_legend, mslp_title(a), mslp_china_coastlines>>

mslp_plot_args(a, width) ==
    IF ~IsNone(a.outfile)
    THEN IF ~IsNone(a.gh)
         THEN <<mslp_output(a, width), mslp_china_map(a), mslp_coastlines,
                mslp_field(a), mslp_contour,
                mslp_gh_feild(a), mslp_gh_contour,
                mslp_legend, mslp_title(a), mslp_china_coastlines>>
         ELSE <<mslp_output(a, width), mslp_china_map(a), mslp_coastlines,
                mslp_field(a), mslp_contour,
                mslp_legend, mslp_title(a), mslp_china_coastlines>>
    ELSE IF ~IsNone(a.gh)
         THEN <<mslp_china_map(a), mslp_coastlines,
                mslp_field(a), mslp_contour,
                mslp_gh_feild(a), mslp_gh_contour,
                mslp_legend, mslp_title(a), mslp_china_coastlines>>
         ELSE <<mslp_china_map(a), mslp_coastlines,
                mslp_field(a), mslp_contour,
                mslp_legend, mslp_title(a), mslp_china_coastlines>>

\* the collaborator calls of the body, in program order
mslp_calls(a, width) ==
    <<mslp_field(a)>>
        \o (IF ~IsNone(a.gh) THEN <<mslp_gh_feild(a)>> ELSE <<>>)
        \o <<mslp_china_map(a), mslp_coastlines, mslp_china_coastlines,
             mslp_gh_contour, mslp_contour, mslp_legend, mslp_title(a)>>
        \o (IF ~IsNone(a.outfile) THEN <<mslp_output(a, width)>> ELSE <<>>)
        \o <<mplot(mslp_plot_args(a, width))>>

\* the render call's value returned in the outfile branch too
mslp_return_always(a, plotted) == Some(plotted)

mslp_return(a, plotted) ==
    IF ~IsNone(a.outfile) THEN None ELSE Some(plotted)

\* the global width assigned by a call that writes a file
draw_mslp_rescales(a, fail) ==
    /\ Invoke(a, mslp_calls(a, out_png_width),
              mslp_return(a, MagicsPlot(mslp_plot_args(a, out_png_width)).handle),
              fail)
    /\ out_png_width' = IF IsNone(a.outfile) THEN out_png_width ELSE 800

draw_mslp(a, fail) ==
    /\ Invoke(a, mslp_calls(a, out_png_width),
              mslp_return(a, MagicsPlot(mslp_plot_args(a, out_png_width)).handle),
              fail)
    /\ UNCHANGED out_png_width

\* ------------------------------------------------------------ call sets

WindArgs(fn, lons, lats, ghs, skips, regions, heads, dates, outfiles) ==
    { [fn |-> fn, uwind |-> w[1], vwind |-> w[2], lon |-> lon, lat |-> lat,
       gh |-> gh, skip_vector |-> skip, map_region |-> region,
       head_info |-> head, date_obj |-> date, outfile |-> outfile] :
        w \in WindPairs, lon \in lons, lat \in lats, gh \in ghs, skip \in skips,
        region \in regions, head \in heads, date \in dates, outfile \in outfiles }

VortArgs(fn, lons, lats, ghs, skips, regions, heads, dates, outfiles) ==
    { [fn |-> fn, uwind |-> w[1], vwind |-> w[2], vort |-> vort,
       lon |-> lon, lat |-> lat,
       gh |-> gh, skip_vector |-> skip, map_region |-> region,
       head_info |-> head, date_obj |-> date, outfile |-> outfile] :
        w \in WindPairs, vort \in VortGrids, lon \in lons, lat \in lats,
        gh \in ghs, skip \in skips,
        region \in regions, head \in heads, date \in dates, outfile \in outfiles }

MslpArgs(fn, lons, lats, ghs, regions, heads, dates, outfiles) ==
    { [fn |-> fn, mslp |-> mslp, lon |-> lon, lat |-> lat,
       gh |-> gh, map_region |-> region,
       head_info |-> head, date_obj |-> date, outfile |-> outfile] :
        mslp \in MslpGrids, lon \in lons, lat \in lats, gh \in ghs,
        region \in regions, head \in heads, date \in dates, outfile \in outfiles }

\* every call of the input sets
UpperArgs ==
    WindArgs("draw_wind_upper", LonLens, LatLens, GhOpts, SkipOpts, RegionOpts,
             HeadOpts, DateOpts, OutfileOpts)
HighArgs ==
    WindArgs("draw_wind_high", LonLens, LatLens, GhOpts, SkipOpts, RegionOpts,
             HeadOpts, DateOpts, OutfileOpts)
VortHighArgs ==
    VortArgs("draw_vort_high", LonLens, LatLens, GhOpts, SkipOpts, RegionOpts,
             HeadOpts, DateOpts, OutfileOpts)
MslpCallArgs ==
    MslpArgs("draw_mslp", LonLens, LatLens, GhOpts, RegionOpts,
             HeadOpts, DateOpts, OutfileOpts)

\* the calls a sequence of invocations draws from
SeqUpperArgs ==
    WindArgs("draw_wind_upper", {MaxNLon}, {MaxNLat}, GhOpts, {None}, {None},
             {None}, {None}, OutfileOpts)
SeqHighArgs ==
    WindArgs("draw_wind_high", {MaxNLon}, {MaxNLat}, GhOpts, {None}, {None},
             {None}, {None}, OutfileOpts)
SeqVortHighArgs ==
    VortArgs("draw_vort_high", {MaxNLon}, {MaxNLat}, GhOpts, {None}, {None},
             {None}, {None}, OutfileOpts)
SeqMslpArgs ==
    MslpArgs("draw_mslp", {MaxNLon}, {MaxNLat}, GhOpts, {None},
             {None}, {None}, OutfileOpts)

\* ------------------------------------------------------- specifications

Init ==
    /\ out_png_width = 1200
    /\ ncalls = 0
    /\ args = None
    /\ trace = <<>>
    /\ result = [kind |-> "idle", value |-> None, exc |-> None]
    /\ files = <<>>
    /\ fault = 0
    /\ hist = <<>>

\* Spec: one invocation on a freshly imported module, over the full input sets.
DrawWindUpper ==
    /\ ncalls = 0
    /\ \E a \in UpperArgs :
         \E fail \in 0..Len(upper_calls(a, out_png_width)) :
            draw_wind_upper(a, fail)

DrawWindHigh ==
    /\ ncalls = 0
    /\ \E a \in HighArgs :
         \E fail \in 0..Len(high_calls(a, out_png_width)) :
            draw_wind_high(a, fail)

DrawVortHigh ==
    /\ ncalls = 0
    /\ \E a \in VortHighArgs :
         \E fail \in 0..Len(vort_calls(a, out_png_width)) :
            draw_vort_high(a, fail)

DrawMslp ==
    /\ ncalls = 0
    /\ \E a \in MslpCallArgs :
         \E fail \in 0..Len(mslp_calls(a, out_png_width)) :
            draw_mslp(a, fail)

Next == DrawWindUpper \/ DrawWindHigh \/ DrawVortHigh \/ DrawMslp

Spec == Init /\ [][Next]_vars

\* SpecCalls: up to MaxCalls invocations one after another in one process; each
\* either completes or has its render call raise.
SeqDrawWindUpper ==
    /\ ncalls < MaxCalls
    /\ \E a \in SeqUpperArgs :
         \E fail \in {0, Len(upper_calls(a, out_png_width))} :
            draw_wind_upper(a, fail)

SeqDrawWindHigh ==
    /\ ncalls < MaxCalls
    /\ \E a \in SeqHighArgs :
         \E fail \in {0, Len(high_calls(a, out_png_width))} :
            draw_wind_high(a, fail)

SeqDrawVortHigh ==
    /\ ncalls < MaxCalls
    /\ \E a \in SeqVortHighArgs :
         \E fail \in {0, Len(vort_calls(a, out_png_width))} :
            draw_vort_high(a, fail)

SeqDrawMslp ==
    /\ ncalls < MaxCalls
    /\ \E a \in SeqMslpArgs :
         \E fail \in {0, Len(mslp_calls(a, out_png_width))} :
            draw_mslp(a, fail)

NextCalls == SeqDrawWindUpper \/ SeqDrawWindHigh \/ SeqDrawVortHigh \/ SeqDrawMslp

SpecCalls == Init /\ [][NextCalls]_vars

\* ------------------------------------------------------------ observations

Called == ncalls > 0
Arg == Get(args)
Completed == Called /\ result.kind = "returned"
WindFns == {"draw_wind_upper", "draw_wind_high", "draw_vort_high"}

\* the calls of the latest invocation to one collaborator operation
OfOp(op) ==
    LET Is(c) == c.op = op IN SelectSeq(trace, Is)

\* the argument list of the latest invocation's render call, once it is issued
Plotted == OfOp("magics.plot") # <<>>
PlotArgs == OfOp("magics.plot")[1].kw

\* the model's renderer, by name
PlotArgsOf(a, width) ==
    CASE a.fn = "draw_wind_upper" -> upper_plot_args(a, width)
      [] a.fn = "draw_wind_high" -> high_plot_args(a, width)
      [] a.fn = "draw_vort_high" -> vort_plot_args(a, width)
      [] a.fn = "draw_mslp" -> mslp_plot_args(a, width)

CallsOf(a, width) ==
    CASE a.fn = "draw_wind_upper" -> upper_calls(a, width)
      [] a.fn = "draw_wind_high" -> high_calls(a, width)
      [] a.fn = "draw_vort_high" -> vort_calls(a, width)
      [] a.fn = "draw_mslp" -> mslp_calls(a, width)

\* ------------------------------------------------------------------ claims

\* C1: in the three wind renderers, when skip_vector is None the stride handed
\* to the vector field constructor is max(ceil(nlon/70), ceil(nlat/35)): the
\* least s >= 0 with 70*s >= nlon and 35*s >= nlat.
C1_DefaultStride ==
    (Called /\ Arg.fn \in WindFns /\ IsNone(Arg.skip_vector)) =>
        LET s == trace[1].kw.skip
        IN  /\ trace[1].op = "util.minput_2d_vector"
            /\ s >= 0
            /\ 70 * s >= Arg.lon
            /\ 35 * s >= Arg.lat
            /\ s > 0 => (70 * (s - 1) < Arg.lon \/ 35 * (s - 1) < Arg.lat)

\* the spec's example: nlon = 360, nlat = 181 gives 6
C1_Witness ==
    /\ Called
    /\ Arg.fn = "draw_vort_high"
    /\ IsNone(Arg.skip_vector)
    /\ Arg.lon = 360 /\ Arg.lat = 181
    /\ trace[1].kw.skip = 6

\* C2: a completed call with outfile returns None and has exactly one file
\* written, to that path, by its one render call; a completed call without
\* outfile returns a handle, writes nothing, and neither builds an output target
\* nor passes one to the render call.
C2_OutfileBranch ==
    Completed =>
        /\ Len(OfOp("magics.plot")) = 1
        /\ IF ~IsNone(Arg.outfile)
           THEN /\ result.value = None
                /\ Len(files) = 1
                /\ files[1].output_name = Get(Arg.outfile)
                /\ Len(OfOp("magics.output")) = 1
                /\ PlotArgs[1] = OfOp("magics.output")[1]
           ELSE /\ result.value # None
                /\ files = <<>>
                /\ OfOp("magics.output") = <<>>
                /\ \A i \in DOMAIN PlotArgs : PlotArgs[i].op # "magics.output"

C2_Witness ==
    /\ Completed
    /\ Arg.fn = "draw_mslp"
    /\ Arg.outfile = Some("wind.png")
    /\ result.value = None
    /\ Len(files) = 1
    /\ files[1].output_name = "wind.png"

\* C3: with gh supplied the render call's argument list is the argument list of
\* the same call without gh, with one field object (wrapping gh) immediately
\* followed by one contour-style object inserted at one place; nothing else
\* moves. This holds in the outfile branch and in the handle branch.
C3_OverlayInsertsTwo ==
    (Called /\ Plotted /\ ~IsNone(Arg.gh)) =>
        LET P == PlotArgs
            Q == PlotArgsOf([Arg EXCEPT !.gh = None], out_png_width)
        IN  /\ Len(P) = Len(Q) + 2
            /\ \E i \in 1..(Len(P) - 1) :
                 /\ P[i].op = "util.minput_2d"
                 /\ P[i].kw.data = Get(Arg.gh)
                 /\ P[i + 1].op = "magics.mcont"
                 /\ SubSeq(P, 1, i - 1) \o SubSeq(P, i + 2, Len(P)) = Q
            /\ Len(SelectSeq(P, LAMBDA o : o.op = "util.minput_2d"))
                 = Len(SelectSeq(Q, LAMBDA o : o.op = "util.minput_2d")) + 1
            /\ Len(SelectSeq(P, LAMBDA o : o.op = "magics.mcont"))
                 = Len(SelectSeq(Q, LAMBDA o : o.op = "magics.mcont")) + 1

C3_Witness ==
    /\ Completed
    /\ Arg.fn = "draw_wind_upper"
    /\ ~IsNone(Arg.gh)
    /\ ~IsNone(Arg.outfile)
    /\ Len(PlotArgs) = 12
    /\ PlotArgs[8].kw.data = Get(Arg.gh)

\* the title of the latest invocation, once it is built
TitleBuilt == Called /\ OfOp("magics.mtext") # <<>>
TitleLines == OfOp("magics.mtext")[1].kw.text_lines

\* the first title line each renderer hard-codes
DefaultCaption(fn) ==
    CASE fn = "draw_wind_upper" ->
           "<font size='1'>200hPa Wind[m/s] and Height[gpm]</font>"
      [] fn = "draw_wind_high" ->
           "<font size='1'>850hPa Wind[m/s] and 500hPa Height[gpm]</font>"
      [] fn = "draw_vort_high" ->
           "<font size='1'>850hPa Wind[m/s] and 500hPa Height[gpm]</font>"
      [] fn = "draw_mslp" ->
           "<font size='1'>Mean sea level pressure[mb] and 500hPa Height[gpm]</font>"

\* the sample captions inside the size-1 font markup
MarkedCaption(h) ==
    CASE h = "T850" -> "<font size='1'>T850</font>"
      [] h = "" -> "<font size='1'></font>"

\* the sample timestamps as %Y/%m/%d %H:%M(UTC)
StampOf(d) ==
    CASE d.year = 2016 -> "2016/07/19 12:00(UTC)"
      [] d.year = 2020 -> "2020/12/01 00:05(UTC)"

\* C4 as stated: without head_info the first title line is the renderer's
\* hard-coded default; with head_info it is the caller's string verbatim.
C4_CaptionVerbatim ==
    TitleBuilt =>
        TitleLines[1] = IF IsNone(Arg.head_info)
                        THEN DefaultCaption(Arg.fn)
                        ELSE Get(Arg.head_info)

\* C4 amended: without head_info the first title line is the renderer's
\* hard-coded default; with head_info (the empty string included) it is the
\* caller's string, unchanged, between "<font size='1'>" and "</font>".
C4_CaptionInMarkup ==
    TitleBuilt =>
        TitleLines[1] = IF IsNone(Arg.head_info)
                        THEN DefaultCaption(Arg.fn)
                        ELSE MarkedCaption(Get(Arg.head_info))

C4_Witness ==
    /\ TitleBuilt
    /\ Arg.fn = "draw_wind_upper"
    /\ Arg.head_info = Some("T850")
    /\ TitleLines[1] = "<font size='1'>T850</font>"

\* C5 as stated: with date_obj the title has exactly two lines and the second
\* is the timestamp as %Y/%m/%d %H:%M(UTC); without it the title has one line.
C5_StampVerbatim ==
    TitleBuilt =>
        IF ~IsNone(Arg.date_obj)
        THEN Len(TitleLines) = 2 /\ TitleLines[2] = StampOf(Get(Arg.date_obj))
        ELSE Len(TitleLines) = 1

\* C5 amended: with date_obj the title has exactly two lines and the second is
\* the timestamp as %Y/%m/%d %H:%M(UTC) between "<font size='0.8' colour='red'>"
\* and "</font>"; without it the title has one line, caption or not.
C5_StampInMarkup ==
    TitleBuilt =>
        IF ~IsNone(Arg.date_obj)
        THEN /\ Len(TitleLines) = 2
             /\ TitleLines[2] = "<font size='0.8' colour='red'>"
                                    \o StampOf(Get(Arg.date_obj)) \o "</font>"
        ELSE Len(TitleLines) = 1

C5_Witness ==
    /\ TitleBuilt
    /\ Arg.fn = "draw_wind_high"
    /\ ~IsNone(Arg.date_obj)
    /\ Get(Arg.date_obj).year = 2020
    /\ IsNone(Arg.head_info)
    /\ Len(TitleLines) = 2
    /\ TitleLines[2] = "<font size='0.8' colour='red'>2020/12/01 00:05(UTC)</font>"

\* C6: in the three wind renderers the grid wrapped into the wind-speed field
\* is, cell by cell, the non-negative root of u^2 + v^2.
C6_SpeedIsNorm ==
    (Called /\ Arg.fn \in WindFns /\ Len(trace) >= 2) =>
        LET d == trace[2].kw.data
        IN  /\ trace[2].op = "util.minput_2d"
            /\ DOMAIN d = DOMAIN Arg.uwind
            /\ \A k \in DOMAIN d :
                 /\ d[k] >= 0
                 /\ d[k] * d[k] = Arg.uwind[k] * Arg.uwind[k] + Arg.vwind[k] * Arg.vwind[k]

C6_Witness ==
    /\ Called
    /\ Arg.fn = "draw_vort_high"
    /\ Len(trace) >= 2
    /\ Arg.uwind[2] = 0 - 10 /\ Arg.vwind[2] = 24
    /\ trace[2].kw.data[2] = 26

\* C7: when a collaborator call raises, the invocation ends raising that very
\* error: the calls made are the body's calls up to the failing one, each once,
\* nothing is returned, and a failure before the render call leaves no render
\* call and no file.
C7_FailurePropagates ==
    (Called /\ fault # 0) =>
        /\ result.kind = "raised"
        /\ result.value = None
        /\ Len(trace) = fault
        /\ result.exc = Some([by |-> trace[fault].op, at |-> fault])
        /\ trace = SubSeq(CallsOf(Arg, out_png_width), 1, fault)
        /\ \A i \in 1..(fault - 1) : trace[i].op # "magics.plot"
        /\ trace[fault].op # "magics.plot" => (~Plotted /\ files = <<>>)

C7_Witness ==
    /\ Called
    /\ fault # 0
    /\ result.kind = "raised"
    /\ trace[Len(trace)].op = "map_set.get_mmap"
    /\ ~IsNone(Arg.outfile)
    /\ ~Plotted
    /\ files = <<>>

\* C8: each call that gets as far as the projection requests exactly one; with
\* map_region None it is CHINA_CYLINDRICAL with no bounding box, otherwise
\* CHINA_REGION_CYLINDRICAL with the caller's box unchanged; a completed call
\* has requested one and hands that one to the render call.
C8_Projection ==
    Called =>
        LET maps == OfOp("map_set.get_mmap")
        IN  /\ Len(maps) <= 1
            /\ Completed => Len(maps) = 1
            /\ Len(maps) = 1 =>
                 maps[1].kw = IF IsNone(Arg.map_region)
                              THEN [name |-> "CHINA_CYLINDRICAL",
                                    subpage_frame_thickness |-> 5]
                              ELSE [name |-> "CHINA_REGION_CYLINDRICAL",
                                    map_region |-> Get(Arg.map_region),
                                    subpage_frame_thickness |-> 5]
            /\ Plotted =>
                 /\ Len(SelectSeq(PlotArgs, LAMBDA o : o.op = "map_set.get_mmap")) = 1
                 /\ \E i \in DOMAIN PlotArgs : PlotArgs[i] = maps[1]

C8_Witness ==
    /\ Completed
    /\ Arg.fn = "draw_wind_high"
    /\ Arg.map_region = Some(<<70, 140, 15, 55>>)
    /\ OfOp("map_set.get_mmap")[1].kw.name = "CHINA_REGION_CYLINDRICAL"
    /\ OfOp("map_set.get_mmap")[1].kw.map_region = <<70, 140, 15, 55>>

\* C9: over any sequence of invocations out_png_width stays 1200, and two
\* invocations with the same arguments issue the same render call whatever was
\* called before them.
C9_Stateless ==
    /\ out_png_width = 1200
    /\ \A i, j \in DOMAIN hist :
         (hist[i].args = hist[j].args /\ hist[i].plot # None /\ hist[j].plot # None)
            => hist[i].plot = hist[j].plot

C9_Witness ==
    /\ Len(hist) = 2
    /\ hist[1].args = hist[2].args
    /\ hist[1].args.fn = "draw_mslp"
    /\ ~IsNone(hist[1].args.outfile)
    /\ hist[1].plot # None
    /\ hist[2].plot # None
    /\ Get(hist[2].plot)[1].kw.output_width = 1200

\* the MSLP contour style of the latest invocation, once it is built
MslpStyles ==
    LET Is(c) == c.op = "magics.mcont" /\ "contour_shade_colour_list" \in DOMAIN c.kw
    IN  SelectSeq(trace, Is)

\* C10 as stated: the levels are 940 + 2.5*i for i = 0..50 (in tenths) and the
\* colour list has one colour per band between consecutive levels.
C10_ColourPerBand ==
    (Called /\ Arg.fn = "draw_mslp" /\ MslpStyles # <<>>) =>
        LET L == MslpStyles[1].kw.contour_level_list
            K == MslpStyles[1].kw.contour_shade_colour_list
        IN  /\ Len(L) = 51
            /\ L[1] = 9400
            /\ \A i \in 1..(Len(L) - 1) : L[i + 1] - L[i] = 25
            /\ L[Len(L)] = 10650
            /\ Len(K) = Len(L) - 1

\* C10 amended: the levels are 940 + 2.5*i for i = 0..50 (in tenths), strictly
\* increasing up to 1065, and the colour list has 51 entries: one for each of
\* the 50 bands between consecutive levels and one more; the same for every
\* call.
C10_LevelsAndColours ==
    (Called /\ Arg.fn = "draw_mslp" /\ MslpStyles # <<>>) =>
        LET L == MslpStyles[1].kw.contour_level_list
            K == MslpStyles[1].kw.contour_shade_colour_list
        IN  /\ Len(MslpStyles) = 1
            /\ Len(L) = 51
            /\ L[1] = 9400
            /\ \A i \in 1..(Len(L) - 1) : L[i + 1] - L[i] = 25
            /\ L[Len(L)] = 10650
            /\ Len(K) = 51
            /\ Len(K) = (Len(L) - 1) + 1

C10_Witness ==
    /\ Completed
    /\ Arg.fn = "draw_mslp"
    /\ Len(MslpStyles) = 1
    /\ MslpStyles[1].kw.contour_level_list[2] = 9425
    /\ MslpStyles[1].kw.contour_shade_colour_list[51] = "#E7E3E4"

\* a data field and the style object that draws it
FieldThenStyle(f, st) ==
    \/ /\ f.op = "util.minput_2d_vector"
       /\ st.op = "magics.mwind"
    \/ /\ f.op = "util.minput_2d"
       /\ st.op = "magics.mcont"
       /\ IF f.kw.metadata.long_name = "height"
          THEN st.kw.legend = "off" /\ "contour_line_colour" \in DOMAIN st.kw
          ELSE st.kw.legend = "on" /\ st.kw.contour_shade = "on"

\* C11: every invocation that completes issues exactly one render call, in each
\* of the four call shapes, and a render call's arguments are: the output
\* target first (only with outfile), the projection, the COAST_FILL coastline,
\* then the data fields each immediately followed by its own style (speed or
\* pressure shading, wind vectors in the wind renderers, the gh contour with
\* gh), then the legend, the title, and the PROVINCE coastline last.
C11_OneOrderedRender ==
    /\ Completed => Len(OfOp("magics.plot")) = 1
    /\ (Called /\ Plotted) =>
         LET P == PlotArgs
             o == IF IsNone(Arg.outfile) THEN 0 ELSE 1
             n == Len(P)
             pairs == (IF Arg.fn \in WindFns THEN 2 ELSE 1)
                          + (IF IsNone(Arg.gh) THEN 0 ELSE 1)
         IN  /\ trace[Len(trace)].op = "magics.plot"
             /\ n = o + 2 + 2 * pairs + 3
             /\ o = 1 => (P[1].op = "magics.output"
                            /\ P[1].kw.output_name = Get(Arg.outfile))
             /\ \A i \in (o + 1)..n : P[i].op # "magics.output"
             /\ P[o + 1].op = "map_set.get_mmap"
             /\ P[o + 2] = [op |-> "map_set.get_mcoast", kw |-> [name |-> "COAST_FILL"]]
             /\ \A j \in 1..pairs :
                  FieldThenStyle(P[o + 2 + 2 * j - 1], P[o + 2 + 2 * j])
             /\ P[o + 2 + 2 * pairs].op = (IF IsNone(Arg.gh)
                                           THEN (IF Arg.fn \in WindFns
                                                 THEN "magics.mwind" ELSE "magics.mcont")
                                           ELSE "magics.mcont")
             /\ ~IsNone(Arg.gh) => P[o + 2 * pairs + 1].kw.data = Get(Arg.gh)
             /\ P[n - 2].op = "magics.mlegend"
             /\ P[n - 1].op = "magics.mtext"
             /\ P[n] = [op |-> "map_set.get_mcoast", kw |-> [name |-> "PROVINCE"]]

C11_Witness ==
    /\ Completed
    /\ Arg.fn = "draw_wind_high"
    /\ ~IsNone(Arg.gh)
    /\ ~IsNone(Arg.outfile)
    /\ Len(OfOp("magics.plot")) = 1
    /\ Len(PlotArgs) = 12
    /\ PlotArgs[1].op = "magics.output"
    /\ PlotArgs[6].op = "util.minput_2d_vector"
    /\ PlotArgs[7].op = "magics.mwind"
    /\ PlotArgs[12].kw.name = "PROVINCE"

\* the draw_wind_high call with the arguments of a draw_vort_high call other
\* than vort
WindHighCallOf(a) ==
    [fn |-> "draw_wind_high", uwind |-> a.uwind, vwind |-> a.vwind,
     lon |-> a.lon, lat |-> a.lat, gh |-> a.gh, skip_vector |-> a.skip_vector,
     map_region |-> a.map_region, head_info |-> a.head_info,
     date_obj |-> a.date_obj, outfile |-> a.outfile]

\* C12: draw_vort_high never reads vort: the collaborator calls it makes (the
\* objects it builds and its render call's argument list) are those of the same
\* call with any other vort grid, and those of draw_wind_high called with the
\* remaining arguments; no field object wraps the vort grid. (The render call
\* is the last entry of trace, its argument list that entry's kw.)
C12_VortUnread ==
    (Called /\ Arg.fn = "draw_vort_high") =>
        LET n == Len(trace)
        IN  /\ \A v \in VortGrids :
                 trace = SubSeq(vort_calls([Arg EXCEPT !.vort = v], out_png_width), 1, n)
            /\ trace = SubSeq(high_calls(WindHighCallOf(Arg), out_png_width), 1, n)
            /\ \A i \in 1..n :
                 trace[i].op \in {"util.minput_2d", "util.minput_2d_vector"}
                    => \A f \in DOMAIN trace[i].kw :
                         f \in {"data", "u", "v"} => trace[i].kw[f] # Arg.vort

C12_Witness ==
    /\ Completed
    /\ Arg.fn = "draw_vort_high"
    /\ Arg.vort[1] = 0 - 3
    /\ ~IsNone(Arg.gh)
    /\ Plotted
    /\ PlotArgs = high_plot_args(WindHighCallOf(Arg), out_png_width)
    /\ PlotArgs = vort_plot_args([Arg EXCEPT !.vort = [k \in 1..NCells |-> k]],
                                 out_png_width)

====
